---- MODULE Spec2Model ----
(***************************************************************************)
(* A model of archr's DockerImageTarget (archr/targets/docker_target.py):  *)
(* the lifecycle of one Target (build, start, stop, remove), the host-side *)
(* mount bridge, the path resolver, archive injection and retrieval, the   *)
(* execution gateway and the two context managers.                         *)
(*                                                                         *)
(* Strings are sequences of one-character strings, so that Python's        *)
(* str.startswith, str.lstrip and os.path functions are modelled on        *)
(* characters and not on path components.                                  *)
(***************************************************************************)
EXTENDS Integers, Sequences, FiniteSets, TLC

(***************************************************************************)
(* Bounds of the model.                                                    *)
(***************************************************************************)
\* how many containers the docker daemon creates in one behaviour
MaxContainers == 3
\* how many pieces a path given to resolve_local_path is put together from
MaxPathPieces == 4
\* how many symbolic links realpath follows while resolving one path
MaxLinkDepth == 3
\* how many processes run_command launches in one behaviour
MaxProcs == 1

(***************************************************************************)
(* Python values.                                                          *)
(***************************************************************************)
\* Python's None and a present value; an optional value is a 0/1 sequence
None == << >>
Some(v) == << v >>
Get(o) == o[1]
\* truth value of an optional list or string: None and empty are falsy
Truthy(o) == o # None /\ Get(o) # << >>

\* str.startswith
StartsWith(s, p) == Len(p) <= Len(s) /\ SubSeq(s, 1, Len(p)) = p

\* str.lstrip("/")
RECURSIVE LStripSlash(_)
LStripSlash(s) == IF s # << >> /\ Head(s) = "/" THEN LStripSlash(Tail(s)) ELSE s

\* the last element of a non-empty sequence
Last(s) == s[Len(s)]

(***************************************************************************)
(* State.                                                                  *)
(***************************************************************************)
VARIABLES
  targets,       \* the DockerImageTarget objects that were constructed
  ctor,          \* per Target: the constructor's target_args/target_path/target_env
  image,         \* self.image
  container,     \* self.container: None or the container's id
  target_args,   \* self.target_args
  target_path,   \* self.target_path
  target_env,    \* self.target_env
  imageAttrs,    \* docker daemon: the image's attrs['Config']
  docker,        \* docker daemon: container id -> "running" | "removed"
  hostDirs,      \* host: the directories that exist under /tmp/archr_mounts
  hostMounts,    \* host: mount point -> the directory bound onto it
  created,       \* per Target: the ids of the containers its start() created
  history,       \* per Target: the last two calls and whether they raised
  result,        \* per Target: what its last build/start/stop/remove returned, if anything
  built,         \* per Target: whether a build() has returned
  pc,            \* per Target: the step a start() or stop() in progress is at
  resolved,      \* a resolve_local_path call: its argument and its result
  cfs,           \* the container's filesystem: path below / -> file or directory
  expect,        \* per target path: the bytes of the file last injected there
  fsCall,        \* the last injection or retrieval call and its outcome
  procs,         \* the processes run_command launched, in order
  scope,         \* a with-scope of the caller: its entered contexts, innermost last
  exits,         \* the contexts that were left, in order, and what their exit did
  localFiles,    \* host files that retrieval contexts write: name -> bytes
  sink           \* the bytes held by the caller's write()able object

lifecycleVars == << targets, ctor, image, container, target_args, target_path,
                    target_env, imageAttrs, docker, hostDirs, hostMounts,
                    created, history, result, built, pc >>

pathVars == << resolved >>
fsVars == << cfs, expect, fsCall >>

runVars == << procs >>
ctxVars == << scope, exits, localFiles, sink >>

vars == << lifecycleVars, pathVars, fsVars, runVars, ctxVars >>

\* what the lifecycle calls, the resolver, the file operations and the
\* execution gateway leave alone
notLifecycleVars == << pathVars, fsVars, runVars, ctxVars >>
notPathVars == << lifecycleVars, fsVars, runVars, ctxVars >>
notFsVars == << lifecycleVars, pathVars, runVars, ctxVars >>
notRunVars == << lifecycleVars, pathVars, fsVars, ctxVars >>

(***************************************************************************)
(* The docker daemon and the host.                                         *)
(***************************************************************************)
\* container ids: the daemon never hands out the same id twice, and ids have
\* one length, so no id is a prefix of another
IdChars == << "a", "b", "c", "d", "e", "f" >>
IdOf(n) == << IdChars[n] >>
\* a daemon that hands out the id of its first container again
NewIdReused == IdOf(1)

\* the id of the next container: one the daemon has not used
NewId == IdOf(Cardinality(DOMAIN docker) + 1)

\* "/tmp/archr_mounts/"
MountsDir == << "/", "t", "m", "p", "/", "a", "r", "c", "h", "r", "_",
                "m", "o", "u", "n", "t", "s", "/" >>

\* a mount_root that all containers of the host share
LocalPathShared(id) == MountsDir

\* "/tmp/archr_mounts/%s" % id
LocalPathOf(id) == MountsDir \o id

\* self.local_path; reading it with self.container None raises AttributeError
local_path(t) == LocalPathOf(Get(container[t]))

\* container.attrs['GraphDriver']['Data']['MergedDir']
MergedDirOf(id) == << "/", "v", "a", "r", "/" >> \o id
merged_path(t) == MergedDirOf(Get(container[t]))

(***************************************************************************)
(* Call records.                                                           *)
(***************************************************************************)
NoCall == [op |-> "none", raised |-> FALSE]
Call(op, raised) == [op |-> op, raised |-> raised]
Record(t, op, raised) ==
  history' = [history EXCEPT ![t] = [prev |-> @.last, last |-> Call(op, raised)]]

(***************************************************************************)
(* Lifecycle.                                                              *)
(***************************************************************************)
\* (Entrypoint or []) + (Cmd or [])
ImageArgs(attrs) ==
  (IF Truthy(attrs.Entrypoint) THEN Get(attrs.Entrypoint) ELSE << >>)
    \o (IF Truthy(attrs.Cmd) THEN Get(attrs.Cmd) ELSE << >>)

\* self.target_args or (Entrypoint or []) + (Cmd or [])
BuildArgs(cur, attrs) == IF Truthy(cur) THEN cur ELSE Some(ImageArgs(attrs))

\* self.target_env or Config['Env']
BuildEnv(cur, attrs) == IF Truthy(cur) THEN cur ELSE attrs.Env

\* self.target_path or self.target_args[0]
BuildPath(cur, args) == IF Truthy(cur) THEN cur ELSE Some(Get(args)[1])

\* a build() that returns the image it resolved
BuildReturnsImage(t) == "image"

\* line 55: return self
BuildReturns(t) == t

\* build(): images.get raises when the image is not found; target_args[0]
\* raises IndexError on an empty list, after the earlier assignments
Build(t) ==
  /\ t \in targets
  /\ \E found \in BOOLEAN :
       IF ~found
       THEN /\ Record(t, "build", TRUE)
            /\ result' = [result EXCEPT ![t] = None]
            /\ UNCHANGED << image, target_args, target_env, target_path, built >>
       ELSE LET args == BuildArgs(target_args[t], imageAttrs)
                env == BuildEnv(target_env[t], imageAttrs)
                indexError == ~Truthy(target_path[t]) /\ Get(args) = << >>
            IN /\ image' = [image EXCEPT ![t] = Some("image")]
               /\ target_args' = [target_args EXCEPT ![t] = args]
               /\ target_env' = [target_env EXCEPT ![t] = env]
               /\ target_path' = IF indexError THEN target_path
                                 ELSE [target_path EXCEPT ![t] = BuildPath(@, args)]
               /\ result' = [result EXCEPT ![t] = IF indexError THEN None
                                                  ELSE Some(BuildReturns(t))]
               /\ built' = [built EXCEPT ![t] = @ \/ ~indexError]
               /\ Record(t, "build", indexError)
  /\ UNCHANGED << targets, ctor, container, imageAttrs, docker, hostDirs,
                  hostMounts, created, pc >>
  /\ UNCHANGED notLifecycleVars

\* the image is tagged anew between two calls: images.get (line 48) reads
\* the configuration the daemon has at the time of the call
image_changes ==
  /\ \E attrs \in [Entrypoint : {None, Some(<< << "e" >> >>)}, Cmd : {None},
                    Env : {None, Some(<< << "V" >> >>)}] :
       /\ attrs # imageAttrs
       /\ imageAttrs' = attrs
  /\ UNCHANGED << targets, ctor, image, container, target_args, target_path,
                  target_env, docker, hostDirs, hostMounts, created, history,
                  result, built, pc >>
  /\ UNCHANGED notLifecycleVars

\* the container handle start() stores
StartHandle(id) == Some(id)

\* the daemon still runs the Target's container
IsServed(t) == docker[Get(container[t])] = "running"

\* start(): containers.run raises when no image was resolved or the daemon
\* fails; makedirs' OSError is swallowed; the exit status of mount is ignored
Start(t) ==
  /\ t \in targets
  /\ Cardinality(DOMAIN docker) < MaxContainers
  /\ \E runOk \in BOOLEAN, mkdirOk \in BOOLEAN, mountOk \in BOOLEAN :
       IF image[t] = None \/ ~runOk
       THEN /\ Record(t, "start", TRUE)
            /\ result' = [result EXCEPT ![t] = None]
            /\ UNCHANGED << container, docker, hostDirs, hostMounts, created >>
       ELSE LET id == NewId
                lp == LocalPathOf(id)
                dirs == IF mkdirOk THEN hostDirs \cup {lp} ELSE hostDirs
                mounted == lp \in dirs /\ mountOk
            IN /\ container' = [container EXCEPT ![t] = StartHandle(id)]
               /\ docker' = docker @@ (id :> "running")
               /\ created' = [created EXCEPT ![t] = Append(@, id)]
               /\ hostDirs' = dirs
               /\ hostMounts' = IF mounted THEN hostMounts @@ (lp :> MergedDirOf(id))
                                ELSE hostMounts
               /\ result' = [result EXCEPT ![t] = Some(t)]
               /\ Record(t, "start", FALSE)
  /\ UNCHANGED << targets, ctor, image, target_args, target_path, target_env,
                  imageAttrs, built, pc >>
  /\ UNCHANGED notLifecycleVars

\* a stop() that forgets the container once it has cleaned up
StopHandleCleared(h) == None

\* the container handle after stop(): stop() assigns nothing to self.container
StopHandle(h) == h

\* stop(): kill raises on a container that is gone; the exit status of umount
\* is ignored; rmdir raises when the directory is missing or still a mount
\* point; with no container, self.local_path raises AttributeError
Stop(t) ==
  /\ t \in targets
  /\ IF container[t] = None
     THEN /\ Record(t, "stop", TRUE)
          /\ UNCHANGED << container, docker, hostDirs, hostMounts >>
     ELSE LET id == Get(container[t])
              lp == local_path(t)
          IN IF docker[id] # "running"
             THEN /\ Record(t, "stop", TRUE)
                  /\ UNCHANGED << container, docker, hostDirs, hostMounts >>
             ELSE \E umountOk \in BOOLEAN :
                    LET unmounted == lp \in DOMAIN hostMounts /\ umountOk
                        mounts == IF unmounted
                                  THEN [p \in DOMAIN hostMounts \ {lp} |-> hostMounts[p]]
                                  ELSE hostMounts
                        rmdirOk == lp \in hostDirs /\ lp \notin DOMAIN mounts
                    IN /\ docker' = [docker EXCEPT ![id] = "removed"]
                       /\ hostMounts' = mounts
                       /\ hostDirs' = IF rmdirOk THEN hostDirs \ {lp} ELSE hostDirs
                       /\ container' = [container EXCEPT ![t] = StopHandle(@)]
                       /\ Record(t, "stop", ~rmdirOk)
  /\ result' = [result EXCEPT ![t] = None]
  /\ UNCHANGED << targets, ctor, image, target_args, target_path, target_env,
                  imageAttrs, created, built, pc >>
  /\ UNCHANGED notLifecycleVars

(***************************************************************************)
(* start() and stop() statement by statement, for Targets that several     *)
(* callers drive at the same time: pc[t] is the statement t's call is at.  *)
(***************************************************************************)
Goto(t, label) == pc' = [pc EXCEPT ![t] = label]

\* line 62: self.container = self._client.containers.run(...)
start_run(t) ==
  /\ t \in targets
  /\ pc[t] = "idle"
  /\ Cardinality(DOMAIN docker) < MaxContainers
  /\ \E runOk \in BOOLEAN :
       IF image[t] = None \/ ~runOk
       THEN /\ Record(t, "start", TRUE)
            /\ result' = [result EXCEPT ![t] = None]
            /\ UNCHANGED << container, docker, created, pc >>
       ELSE /\ container' = [container EXCEPT ![t] = StartHandle(NewId)]
            /\ docker' = docker @@ (NewId :> "running")
            /\ created' = [created EXCEPT ![t] = Append(@, NewId)]
            /\ Goto(t, "makedirs")
            /\ UNCHANGED << history, result >>
  /\ UNCHANGED << targets, ctor, image, target_args, target_path, target_env,
                  imageAttrs, hostDirs, hostMounts, built >>
  /\ UNCHANGED notLifecycleVars

\* lines 70-71: try: os.makedirs(self.local_path) / except OSError: pass
start_makedirs(t) ==
  /\ t \in targets
  /\ pc[t] = "makedirs"
  /\ \E mkdirOk \in BOOLEAN :
       hostDirs' = IF mkdirOk THEN hostDirs \cup {local_path(t)} ELSE hostDirs
  /\ Goto(t, "mount")
  /\ UNCHANGED << targets, ctor, image, container, target_args, target_path,
                  target_env, imageAttrs, docker, hostMounts, created, history,
                  result, built >>
  /\ UNCHANGED notLifecycleVars

\* lines 72-73: os.system("sudo mount -o bind ..."); return self
start_mount(t) ==
  /\ t \in targets
  /\ pc[t] = "mount"
  /\ \E mountOk \in BOOLEAN :
       hostMounts' = IF local_path(t) \in hostDirs /\ mountOk
                     THEN hostMounts @@ (local_path(t) :> merged_path(t))
                     ELSE hostMounts
  /\ Record(t, "start", FALSE)
  /\ result' = [result EXCEPT ![t] = Some(t)]
  /\ Goto(t, "idle")
  /\ UNCHANGED << targets, ctor, image, container, target_args, target_path,
                  target_env, imageAttrs, docker, hostDirs, created, built >>
  /\ UNCHANGED notLifecycleVars

\* lines 76-77: if self.container: self.container.kill(); with no container
\* the next line's self.local_path raises
stop_kill(t) ==
  /\ t \in targets
  /\ pc[t] = "idle"
  /\ IF container[t] = None \/ ~IsServed(t)
     THEN /\ Record(t, "stop", TRUE)
          /\ UNCHANGED << docker, pc >>
     ELSE /\ docker' = [docker EXCEPT ![Get(container[t])] = "removed"]
          /\ Goto(t, "umount")
          /\ UNCHANGED history
  /\ result' = [result EXCEPT ![t] = None]
  /\ UNCHANGED << targets, ctor, image, container, target_args, target_path,
                  target_env, imageAttrs, hostDirs, hostMounts, created, built >>
  /\ UNCHANGED notLifecycleVars

\* line 78: os.system("sudo umount %s" % self.local_path)
stop_umount(t) ==
  /\ t \in targets
  /\ pc[t] = "umount"
  /\ \E umountOk \in BOOLEAN :
       hostMounts' = IF local_path(t) \in DOMAIN hostMounts /\ umountOk
                     THEN [p \in DOMAIN hostMounts \ {local_path(t)} |-> hostMounts[p]]
                     ELSE hostMounts
  /\ Goto(t, "rmdir")
  /\ UNCHANGED << targets, ctor, image, container, target_args, target_path,
                  target_env, imageAttrs, docker, hostDirs, created, history,
                  result, built >>
  /\ UNCHANGED notLifecycleVars

\* line 79: os.rmdir(self.local_path)
stop_rmdir(t) ==
  /\ t \in targets
  /\ pc[t] = "rmdir"
  /\ LET rmdirOk == local_path(t) \in hostDirs /\ local_path(t) \notin DOMAIN hostMounts
     IN /\ hostDirs' = IF rmdirOk THEN hostDirs \ {local_path(t)} ELSE hostDirs
        /\ Record(t, "stop", ~rmdirOk)
  /\ Goto(t, "idle")
  /\ UNCHANGED << targets, ctor, image, container, target_args, target_path,
                  target_env, imageAttrs, docker, hostMounts, created, result,
                  built >>
  /\ UNCHANGED notLifecycleVars

\* remove(): container.remove(force=True) raises NotFound when the daemon no
\* longer has the container
Remove(t) ==
  /\ t \in targets
  /\ IF container[t] = None
     THEN /\ Record(t, "remove", FALSE)
          /\ UNCHANGED docker
     ELSE LET id == Get(container[t])
          IN IF docker[id] = "running"
             THEN /\ docker' = [docker EXCEPT ![id] = "removed"]
                  /\ Record(t, "remove", FALSE)
             ELSE /\ Record(t, "remove", TRUE)
                  /\ UNCHANGED docker
  /\ result' = [result EXCEPT ![t] = None]
  /\ UNCHANGED << targets, ctor, image, container, target_args, target_path,
                  target_env, imageAttrs, hostDirs, hostMounts, created, built, pc >>
  /\ UNCHANGED notLifecycleVars

(***************************************************************************)
(* Path Resolver.                                                          *)
(***************************************************************************)
\* posixpath.join(a, b)
PathJoin(a, b) ==
  IF b # << >> /\ Head(b) = "/" THEN b
  ELSE IF a = << >> \/ Last(a) = "/" THEN a \o b
  ELSE a \o << "/" >> \o b

\* s.split("/"): the names between the separators, empty names included
RECURSIVE SplitSlash(_, _)
SplitSlash(s, name) ==
  IF s = << >> THEN << name >>
  ELSE IF Head(s) = "/" THEN << name >> \o SplitSlash(Tail(s), << >>)
  ELSE SplitSlash(Tail(s), Append(name, Head(s)))

\* "/" + "/".join(names)
RECURSIVE JoinSlash(_)
JoinSlash(names) ==
  IF names = << >> THEN << >> ELSE << "/" >> \o Head(names) \o JoinSlash(Tail(names))
AbsPath(names) == IF names = << >> THEN << "/" >> ELSE JoinSlash(names)

\* the symbolic links of the host, seen with the container's filesystem bound
\* under mount_root: l -> an absolute path, u -> a relative path that climbs
\* out, d -> a name beside it, s -> the directory beside mount_root whose name
\* starts with mount_root's
HostSymlinks(root) ==
  [ at : {root \o << "/", "l" >>}, to : {<< "/", "e" >>} ] \cup
  [ at : {root \o << "/", "u" >>}, to : {<< ".", ".", "/", ".", "." >>} ] \cup
  [ at : {root \o << "/", "d" >>}, to : {<< "f" >>} ] \cup
  [ at : {root \o << "/", "s" >>}, to : {root \o << "x" >>} ]

IsLink(links, p) == \E k \in links : k.at = p
ReadLink(links, p) == (CHOOSE k \in links : k.at = p).to

\* posixpath._joinrealpath on an absolute path: path is the list of resolved
\* names, rest the names still to resolve
RECURSIVE JoinRealPath(_, _, _, _)
JoinRealPath(links, path, rest, fuel) ==
  IF rest = << >> THEN path
  ELSE LET name == Head(rest)
           newpath == Append(path, name)
       IN IF name = << >> \/ name = << "." >>
          THEN JoinRealPath(links, path, Tail(rest), fuel)
          ELSE IF name = << ".", "." >>
          THEN JoinRealPath(links, IF path = << >> THEN path
                                   ELSE SubSeq(path, 1, Len(path) - 1),
                            Tail(rest), fuel)
          ELSE IF ~IsLink(links, AbsPath(newpath)) \/ fuel = 0
          THEN JoinRealPath(links, newpath, Tail(rest), fuel)
          ELSE LET to == ReadLink(links, AbsPath(newpath))
                   base == IF Head(to) = "/" THEN << >> ELSE path
               IN JoinRealPath(links,
                               JoinRealPath(links, base, SplitSlash(to, << >>), fuel - 1),
                               Tail(rest), fuel)

\* os.path.realpath of an absolute path
RealPath(links, p) == AbsPath(JoinRealPath(links, << >>, SplitSlash(p, << >>), MaxLinkDepth))

\* a resolver that compares whole path components with mount_root
UnderPrefixStrict(p, root) == p = root \/ StartsWith(p, root \o << "/" >>)

\* path.startswith(self.local_path)
UnderPrefix(p, root) == StartsWith(p, root)

\* lines 97-99: re-join the canonical path under mount_root when it left it
ReRoot(rp, root) ==
  IF ~UnderPrefix(rp, root) THEN PathJoin(root, LStripSlash(rp)) ELSE rp

\* resolve_local_path(path) with self.local_path = root
ResolveLocalPath(links, root, path) ==
  LET p == IF ~UnderPrefix(path, root) THEN PathJoin(root, LStripSlash(path)) ELSE path
  IN ReRoot(RealPath(links, p), root)

\* the paths a caller hands to the resolver: up to MaxPathPieces pieces
PathPieces(root) ==
  { << "/" >>, << "/", ".", "." >>, << ".", "." >>, << "/", "f" >>, << "f" >>,
    << "/", "l" >>, << "/", "u" >>, << "/", "d" >>, << "/", "s" >>, << "x" >>, root }

RECURSIVE PathInputs(_, _)
PathInputs(root, n) ==
  IF n = 0 THEN { << >> }
  ELSE LET shorter == PathInputs(root, n - 1)
       IN shorter \cup { p \o q : p \in shorter, q \in PathPieces(root) }

NoPath == [path |-> << >>, result |-> None]

resolve_local_path(t) ==
  /\ t \in targets
  /\ container[t] # None
  /\ resolved.result = None
  /\ resolved' = [resolved EXCEPT !.result =
                    Some(ResolveLocalPath(HostSymlinks(local_path(t)),
                                          local_path(t), resolved.path))]
  /\ UNCHANGED notPathVars

(***************************************************************************)
(* Archive Codec, injection and retrieval.                                 *)
(***************************************************************************)
\* p.rfind("/"): the index of the last "/" of p, 0 when there is none
RECURSIVE RFindSlash(_, _)
RFindSlash(p, i) == IF i = 0 \/ p[i] = "/" THEN i ELSE RFindSlash(p, i - 1)

\* s.rstrip("/")
RECURSIVE RStripSlash(_)
RStripSlash(s) ==
  IF s # << >> /\ Last(s) = "/" THEN RStripSlash(SubSeq(s, 1, Len(s) - 1)) ELSE s

\* os.path.basename
Basename(p) == SubSeq(p, RFindSlash(p, Len(p)) + 1, Len(p))

\* os.path.dirname: the head up to the last "/", without trailing separators
\* unless it consists of separators only
Dirname(p) ==
  LET head == SubSeq(p, 1, RFindSlash(p, Len(p)))
  IN IF RStripSlash(head) # << >> THEN RStripSlash(head) ELSE head

\* name is path or lies below the directory path
Under(name, path) == name = path \/ StartsWith(name, path \o << "/" >>)

\* the proper ancestors of a relative path: a/b/c -> {a, a/b}
Parents(name) == { SubSeq(name, 1, i - 1) : i \in { j \in 1..Len(name) : name[j] = "/" } }

File(data) == [dir |-> FALSE, data |-> data]
Dir == [dir |-> TRUE, data |-> << >>]
Member(name, node) == [name |-> name, dir |-> node.dir, data |-> node.data]

\* the host's files that a caller injects: /h is a file, /D a directory that
\* holds the file f; /n does not exist
HostH == << "/", "h" >>
HostD == << "/", "D" >>
HostN == << "/", "n" >>
HostFs == (HostH :> [node |-> File(<< 1 >>), children |-> << >>])
       @@ (HostD :> [node |-> Dir,
                     children |-> << [name |-> << "f" >>, node |-> File(<< 3 >>)] >>])

\* tarfile.add(src, arcname=dst): the member for src, named dst without its
\* leading separators, followed by the members of a directory's entries
TarAdd(src, dst) ==
  << Member(LStripSlash(dst), HostFs[src].node) >> \o
  [ i \in 1..Len(HostFs[src].children) |->
      Member(LStripSlash(PathJoin(dst, HostFs[src].children[i].name)),
             HostFs[src].children[i].node) ]

\* lines 108-111: the archive of all pairs, in order
RECURSIVE TarOf(_)
TarOf(files) ==
  IF files = << >> THEN << >>
  ELSE TarAdd(Head(files).src, Head(files).dst) \o TarOf(Tail(files))

\* the daemon unpacks one member below "/": it fails when an ancestor is a
\* file, merges a directory into a directory, and replaces anything else
ExtractMember(fs, m) ==
  IF \E a \in Parents(m.name) : a \in DOMAIN fs /\ ~fs[a].dir
  THEN [ok |-> FALSE, fs |-> fs]
  ELSE LET merge == m.name \in DOMAIN fs /\ fs[m.name].dir /\ m.dir
           kept == IF merge THEN DOMAIN fs
                   ELSE { q \in DOMAIN fs : ~Under(q, m.name) }
       IN [ok |-> TRUE,
           fs |-> [ q \in kept \cup Parents(m.name) \cup {m.name} |->
                      IF q = m.name THEN [dir |-> m.dir, data |-> m.data]
                      ELSE IF q \in kept THEN fs[q] ELSE Dir ]]

\* container.put_archive("/", tar): members are unpacked in order; the call
\* raises at the first member that cannot be unpacked
RECURSIVE PutArchive(_, _)
PutArchive(fs, tar) ==
  IF tar = << >> THEN [ok |-> TRUE, fs |-> fs]
  ELSE LET r == ExtractMember(fs, Head(tar))
       IN IF r.ok THEN PutArchive(r.fs, Tail(tar)) ELSE r

\* container.get_archive(path): the resource at path, its members named from
\* the basename of path on
GetArchive(fs, path) ==
  LET rel == LStripSlash(path)
  IN { Member(Basename(path) \o SubSeq(q, Len(rel) + 1, Len(q)), fs[q]) :
         q \in { r \in DOMAIN fs : Under(r, rel) } }

\* members a misbehaving daemon may add to a stream
ExtraMembers == { Member(<< "a", "b" >>, File(<< 7 >>)), Member(<< "z" >>, File(<< 8 >>)) }

\* the streams get_archive may return for path: the honest archive, and the
\* honest archive with unrelated members added
Streams(fs, path) ==
  { GetArchive(fs, path) \cup
      { m \in extra : \A h \in GetArchive(fs, path) : h.name # m.name } :
    extra \in SUBSET ExtraMembers }

\* whether the container can serve archive calls
Serving(t) == container[t] # None /\ docker[Get(container[t])] = "running"

\* the target paths and the calls a caller makes
PA == << "/", "a" >>
PAF == << "/", "a", "/", "f" >>
PAB == << "/", "a", "b" >>
TargetPaths == { PA, PAF, PAB }
Pairs == [src : {HostH, HostD, HostN}, dst : TargetPaths]
InjectCalls == { << x >> : x \in Pairs } \cup { << x, y >> : x \in Pairs, y \in Pairs }

\* what is known of the file at target path P after one more pair: a file
\* injected at P is expected there; a pair above P shadows what was injected
NoExpect == [data |-> None, shadowed |-> FALSE]
ExpectAfterPair(e, P, pair, returned) ==
  IF pair.dst = P
  THEN IF returned /\ ~HostFs[pair.src].node.dir
       THEN [data |-> Some(HostFs[pair.src].node.data), shadowed |-> FALSE]
       ELSE NoExpect
  ELSE IF Under(P, pair.dst) THEN [e EXCEPT !.shadowed = TRUE]
  ELSE e

RECURSIVE ExpectAfter(_, _, _, _)
ExpectAfter(e, P, files, returned) ==
  IF files = << >> THEN e
  ELSE ExpectAfter(ExpectAfterPair(e, P, Head(files), returned), P, Tail(files), returned)

\* an archive of the sources that exist, the others skipped
ArchiveOfExisting(files) ==
  Some(TarOf(SelectSeq(files, LAMBDA x : x.src \in DOMAIN HostFs)))

\* lines 107-113: the archive inject_paths builds before it uploads anything;
\* None when tarfile.add raises, as it does on a source that does not exist
Archive(files) ==
  IF \E i \in 1..Len(files) : files[i].src \notin DOMAIN HostFs THEN None
  ELSE Some(TarOf(files))

\* inject_paths(files): tarfile.add raises on a source that does not exist,
\* before anything is uploaded; put_archive raises when the daemon cannot
\* unpack a member, with the earlier members unpacked
inject_paths(t) ==
  /\ t \in targets
  /\ \E files \in InjectCalls :
       LET b == Archive(files)
       IN IF b = None
          THEN /\ fsCall' = [op |-> "inject_paths", files |-> files, raised |-> TRUE]
               /\ UNCHANGED << cfs, expect >>
          ELSE IF ~Serving(t)
          THEN /\ fsCall' = [op |-> "inject_paths", files |-> files, raised |-> TRUE]
               /\ UNCHANGED << cfs, expect >>
          ELSE LET r == PutArchive(cfs, Get(b))
               IN /\ cfs' = r.fs
                  \* the pairs that are in the archive: all of them
                  /\ expect' = [P \in TargetPaths |->
                                  ExpectAfter(expect[P], P,
                                    SelectSeq(files, LAMBDA x : x.src \in DOMAIN HostFs),
                                    r.ok)]
                  /\ fsCall' = [op |-> "inject_paths", files |-> files, raised |-> ~r.ok]
  /\ UNCHANGED notFsVars

\* a retrieval that looks the member up by the whole target path
FileFromStreamByPath(stream, path) ==
  LET found == { m \in stream : m.name = LStripSlash(path) /\ ~m.dir }
  IN IF found = {} THEN None ELSE Some((CHOOSE m \in found : TRUE).data)

\* the bytes retrieve_file_contents returns for a stream: extractfile raises
\* KeyError without a member named like the basename, and yields None, on
\* which .read() raises, for a directory
FileFromStream(stream, path) ==
  LET found == { m \in stream : m.name = Basename(path) /\ ~m.dir }
  IN IF found = {} THEN None ELSE Some((CHOOSE m \in found : TRUE).data)

\* retrieve_file_contents(target_path) on the filesystem fs: None when it raises
RetrieveFileContents(t, fs, path, stream) ==
  IF ~Serving(t) \/ LStripSlash(path) \notin DOMAIN fs THEN None
  ELSE FileFromStream(stream, path)

retrieve_file_contents(t) ==
  /\ t \in targets
  /\ \E path \in TargetPaths :
       \E stream \in Streams(cfs, path) :
         LET r == RetrieveFileContents(t, cfs, path, stream)
         IN fsCall' = [op |-> "retrieve_file_contents", path |-> path,
                       raised |-> r = None, result |-> r]
  /\ UNCHANGED << cfs, expect >>
  /\ UNCHANGED notFsVars

\* the local directory a caller retrieves into
LocalDir == << "/", "L" >>

\* line 169: the members whose name starts with target_path.lstrip("/")
SelectMembers(stream, path) == { m \in stream : StartsWith(m.name, LStripSlash(path)) }

\* line 169: extractall into local_path joined with the parent of target_path
ExtractAll(members, path, local) ==
  { [m EXCEPT !.name = PathJoin(PathJoin(local, LStripSlash(Dirname(path))), m.name)] :
      m \in members }

\* retrieve_path(target_path, local_path)
retrieve_path(t) ==
  /\ t \in targets
  /\ \E path \in TargetPaths :
       IF ~Serving(t) \/ LStripSlash(path) \notin DOMAIN cfs
       THEN fsCall' = [op |-> "retrieve_path", path |-> path, raised |-> TRUE,
                       stream |-> {}, extracted |-> {}]
       ELSE \E stream \in Streams(cfs, path) :
              fsCall' = [op |-> "retrieve_path", path |-> path, raised |-> FALSE,
                         stream |-> stream,
                         extracted |-> ExtractAll(SelectMembers(stream, path),
                                                  path, LocalDir)]
  /\ UNCHANGED << cfs, expect >>
  /\ UNCHANGED notFsVars

\* the image's files: the entrypoint
ImageFs == (<< "e" >> :> File(<< 9 >>))

FsInit ==
  /\ cfs = ImageFs
  /\ expect = [P \in TargetPaths |-> NoExpect]
  /\ fsCall = [op |-> "none"]

(***************************************************************************)
(* Execution Gateway.                                                      *)
(***************************************************************************)
\* the words of the command lines
WDocker == << "d", "o", "c", "k", "e", "r" >>
WExec == << "e", "x", "e", "c" >>
WDashI == << "-", "i" >>
WDashE == << "-", "e" >>
WSetarch == << "s", "e", "t", "a", "r", "c", "h" >>
WX8664 == << "x", "8", "6", "_", "6", "4" >>
WDashR == << "-", "R" >>

\* a list is falsy when it is None or empty
OrList(a, b) == IF Truthy(a) THEN a ELSE b

\* a gateway that puts the personality tool after the prefix
CommandArgsWrapInner(args, prefix, suffix, aslr, default) ==
  LET base == OrList(args, default)
      inner == IF aslr THEN Get(base) ELSE << WSetarch, WX8664, WDashR >> \o Get(base)
      pre == IF Truthy(prefix) THEN Get(prefix) \o inner ELSE inner
  IN IF base = None THEN None
     ELSE Some(IF Truthy(suffix) THEN pre \o Get(suffix) ELSE pre)

\* lines 234-240: command_args; None stands for the TypeError that the first
\* list operation on it raises when neither args nor target_args is a list
CommandArgs(args, prefix, suffix, aslr, default) ==
  LET base == OrList(args, default)
      pre == IF Truthy(prefix) THEN Get(prefix) \o Get(base) ELSE Get(base)
      suf == IF Truthy(suffix) THEN pre \o Get(suffix) ELSE pre
  IN IF base = None THEN None
     ELSE Some(IF aslr THEN suf ELSE << WSetarch, WX8664, WDashR >> \o suf)

\* lines 243-244: "-e", e for every entry of target_env
RECURSIVE EnvArgs(_)
EnvArgs(env) ==
  IF env = << >> THEN << >> ELSE << WDashE, Head(env) >> \o EnvArgs(Tail(env))

\* lines 242-245: docker_args
DockerArgs(env, id) == << WDocker, WExec, WDashI >> \o EnvArgs(env) \o << id >>

\* the argument vector run_command hands to Popen, None when it raises:
\* the assertion on self.container, and the TypeErrors of a None
\* command_args or a None target_env
RunCommand(t, args, prefix, suffix, aslr) ==
  LET cmd == CommandArgs(args, prefix, suffix, aslr, target_args[t])
  IN IF container[t] = None \/ cmd = None \/ target_env[t] = None THEN None
     ELSE Some(DockerArgs(Get(target_env[t]), Get(container[t])) \o Get(cmd))

\* what a caller passes as args, args_prefix and args_suffix
WId == << "i", "d" >>
WPre == << "p" >>
WSuf == << "s" >>
ArgLists(w) == { None, Some(<< >>), Some(<< w >>) }

\* a launched process: its argument vector and the call that launched it
Proc(argv, args, prefix, suffix, aslr) ==
  [argv |-> argv, args |-> args, prefix |-> prefix, suffix |-> suffix,
   aslr |-> aslr, state |-> "running", waited |-> FALSE, terminates |-> 0]

\* the processes after run_command(args, args_prefix, args_suffix, aslr):
\* one more when Popen was reached
Launched(t, args, prefix, suffix, aslr) ==
  LET argv == RunCommand(t, args, prefix, suffix, aslr)
  IN IF argv = None THEN procs
     ELSE Append(procs, Proc(Get(argv), args, prefix, suffix, aslr))

\* run_command(args, args_prefix, args_suffix, aslr)
run_command(t) ==
  /\ t \in targets
  /\ Len(procs) < MaxProcs
  /\ \E args \in ArgLists(WId), prefix \in ArgLists(WPre), suffix \in ArgLists(WSuf),
        aslr \in BOOLEAN :
       procs' = Launched(t, args, prefix, suffix, aslr)
  /\ UNCHANGED notRunVars

\* run_command(args) called between lifecycle calls, with the call recorded:
\* it raised when Popen was not reached
run_command_between(t) ==
  /\ t \in targets
  /\ \E args \in {None, Some(<< WId >>)} :
       LET after == Launched(t, args, None, None, TRUE)
       IN /\ Len(after) <= MaxProcs
          /\ procs' = after
          /\ Record(t, "run_command", after = procs)
  /\ UNCHANGED << targets, ctor, image, container, target_args, target_path,
                  target_env, imageAttrs, docker, hostDirs, hostMounts, created,
                  result, built, pc >>
  /\ UNCHANGED << pathVars, fsVars, ctxVars >>

(***************************************************************************)
(* Context managers: retrieval_context and run_context.                    *)
(*                                                                         *)
(* A scope is one with-statement or ExitStack of the caller: it enters     *)
(* contexts, runs its body, and leaves the contexts innermost first, with  *)
(* an exception propagating or not.                                        *)
(***************************************************************************)
NoScope == [pc |-> "open", exc |-> FALSE, stack |-> << >>]
Entered(kind) == \E i \in 1..Len(scope.stack) : scope.stack[i].kind = kind

\* a scope that leaves its contexts in the order it entered them
Oldest == Head(scope.stack)

\* the context a scope leaves next: the one it entered last
Top == Last(scope.stack)

\* how many contexts of the scope were entered after the one it leaves next
\* and are not left yet
Inner == Cardinality({ k \in 1..Len(scope.stack) : scope.stack[k].seq > Top.seq })
Pop(exc) == [pc |-> IF Len(scope.stack) = 1 THEN "done" ELSE "unwinding",
             exc |-> exc,
             stack |-> SubSeq(scope.stack, 1, Len(scope.stack) - 1)]

\* tempfile.mktemp(), the path a caller gives, and the caller's sink object
TempName == << "/", "t", "m", "p", "/", "k" >>
GivenName == << "/", "g" >>
SinkObject == << "s", "i", "n", "k" >>

\* lines 181-189: what the context yields for each kind of local_thing
ToYield(kind) ==
  IF kind = "path" THEN GivenName ELSE IF kind = "temp" THEN TempName ELSE SinkObject

\* open(name, "wb"): the file exists and is empty
OpenWb(files, name) == [ n \in DOMAIN files \cup {name} |-> IF n = name THEN << >> ELSE files[n] ]

\* retrieval_context(target_path, local_thing) up to its yield; a local_thing
\* that is no str, no None and has no write raises ValueError
enter_retrieval_context(t) ==
  /\ t \in targets
  /\ scope.pc = "open"
  /\ ~Entered("retrieval")
  /\ \E kind \in {"path", "temp", "sink", "other"} :
       IF kind = "other"
       THEN /\ scope' = [scope EXCEPT !.pc = IF scope.stack = << >> THEN "done"
                                             ELSE "unwinding",
                                      !.exc = TRUE]
            /\ UNCHANGED localFiles
       ELSE /\ scope' = [scope EXCEPT !.stack =
                           Append(@, [kind |-> "retrieval", dest |-> kind,
                                      path |-> PA, yielded |-> ToYield(kind),
                                      seq |-> Len(scope.stack) + 1])]
            /\ localFiles' = IF kind = "sink" THEN localFiles
                             ELSE OpenWb(localFiles, ToYield(kind))
  /\ UNCHANGED << exits, sink >>
  /\ UNCHANGED << lifecycleVars, pathVars, fsVars, runVars >>

\* a context that retrieves only when the body completed
RetrievesOnlyOnSuccess(exc) == ~exc

\* lines 193-196: the retrieval is in a finally clause
RetrievesOnExit(exc) == TRUE

\* the file at path in the container, None when there is none
FileAt(fs, path) ==
  IF LStripSlash(path) \in DOMAIN fs /\ ~fs[LStripSlash(path)].dir
  THEN Some(fs[LStripSlash(path)].data) ELSE None

\* the exit of retrieval_context: retrieve_file_contents, which may raise,
\* then local_file.write; the ExitStack then closes a file it opened
exit_retrieval_context(t) ==
  /\ t \in targets
  /\ scope.pc = "unwinding"
  /\ Top.kind = "retrieval"
  /\ LET retrieves == RetrievesOnExit(scope.exc)
         r == IF retrieves
              THEN RetrieveFileContents(t, cfs, Top.path, GetArchive(cfs, Top.path))
              ELSE None
     IN /\ localFiles' = IF r # None /\ Top.dest # "sink"
                         THEN [localFiles EXCEPT ![Top.yielded] = Get(r)]
                         ELSE localFiles
        /\ sink' = IF r # None /\ Top.dest = "sink" THEN sink \o Get(r) ELSE sink
        /\ exits' = Append(exits, [kind |-> "retrieval", dest |-> Top.dest,
                                   yielded |-> Top.yielded,
                                   excBefore |-> scope.exc,
                                   fileAtExit |-> FileAt(cfs, Top.path),
                                   sinkBefore |-> sink,
                                   seq |-> Top.seq, inner |-> Inner])
        /\ scope' = Pop(scope.exc \/ (retrieves /\ r = None))
  /\ UNCHANGED << lifecycleVars, pathVars, fsVars, runVars >>

\* run_context(*args, **kwargs) up to its yield: run_command launches the
\* process; when run_command raises no context is entered
enter_run_context(t) ==
  /\ t \in targets
  /\ scope.pc = "open"
  /\ ~Entered("run")
  /\ Len(procs) < MaxProcs
  /\ \E args \in {None, Some(<< WId >>)}, aslr \in BOOLEAN :
       LET after == Launched(t, args, None, None, aslr)
       IN /\ procs' = after
          /\ scope' = IF after = procs
                      THEN [scope EXCEPT !.pc = IF scope.stack = << >> THEN "done"
                                                ELSE "unwinding",
                                         !.exc = TRUE]
                      ELSE [scope EXCEPT !.stack =
                              Append(@, [kind |-> "run", pid |-> Len(after),
                                         yielded |-> Len(after),
                                         seq |-> Len(scope.stack) + 1])]
  /\ UNCHANGED << exits, localFiles, sink >>
  /\ UNCHANGED << lifecycleVars, pathVars, fsVars >>

\* the body of a scope calls run_command(["id"]), as the tests do
body_runs_command(t) ==
  /\ t \in targets
  /\ scope.pc = "open"
  /\ scope.stack # << >>
  /\ Len(procs) < MaxProcs
  /\ procs' = Launched(t, Some(<< WId >>), None, None, TRUE)
  /\ UNCHANGED notRunVars

\* the body of the scope ends: it completes or it raises
body_ends ==
  /\ scope.pc = "open"
  /\ scope.stack # << >>
  /\ \E raises \in BOOLEAN : scope' = [scope EXCEPT !.pc = "unwinding", !.exc = raises]
  /\ UNCHANGED << exits, localFiles, sink >>
  /\ UNCHANGED << lifecycleVars, pathVars, fsVars, runVars >>

\* what a command leaves in the container when it runs to its end: as
\* cp /etc/passwd /tmp/foo does, it writes the file at PA
CommandOutput == File(<< 5 >>)
RanToEnd(fs) == PutArchive(fs, << Member(LStripSlash(PA), CommandOutput) >>).fs

\* a launched process runs to its end
process_finishes ==
  /\ \E i \in 1..Len(procs) :
       /\ procs[i].state = "running"
       /\ procs' = [procs EXCEPT ![i].state = "exited"]
  /\ cfs' = RanToEnd(cfs)
  /\ UNCHANGED << expect, fsCall >>
  /\ UNCHANGED << lifecycleVars, pathVars, ctxVars >>

\* a context that terminates the process only after a wait that returned
TerminatesOnlyOnSuccess(exc) == ~exc

\* lines 259-264: p.terminate() is in a finally clause
TerminatesOnExit(exc) == TRUE

\* p.terminate(): one more attempt; a process that still runs is killed
Terminate(p) ==
  [p EXCEPT !.terminates = @ + 1,
            !.state = IF @ = "running" THEN "killed" ELSE @]

\* the exit of run_context: when the body completed, p.wait() blocks until
\* the process has run to its end, unless the wait is interrupted; an
\* exception of the body skips the wait; p.terminate() follows in each case
exit_run_context(t) ==
  /\ t \in targets
  /\ scope.pc = "unwinding"
  /\ Top.kind = "run"
  /\ \E interrupted \in BOOLEAN :
       LET i == Top.pid
           waits == ~scope.exc
           waited == waits /\ ~interrupted
           exc == scope.exc \/ (waits /\ interrupted)
           afterWait == IF waited THEN [procs[i] EXCEPT !.state = "exited", !.waited = TRUE]
                        ELSE procs[i]
       IN /\ procs' = [procs EXCEPT ![i] = IF TerminatesOnExit(exc)
                                           THEN Terminate(afterWait) ELSE afterWait]
          /\ cfs' = IF waited /\ procs[i].state = "running" THEN RanToEnd(cfs) ELSE cfs
          /\ exits' = Append(exits, [kind |-> "run", pid |-> i, yielded |-> Top.yielded,
                                     excBefore |-> scope.exc,
                                     interrupted |-> waits /\ interrupted,
                                     waitedFirst |-> afterWait.waited,
                                     seq |-> Top.seq, inner |-> Inner])
          /\ scope' = Pop(exc)
  /\ UNCHANGED << expect, fsCall, localFiles, sink >>
  /\ UNCHANGED << lifecycleVars, pathVars >>

CtxInit ==
  /\ scope = NoScope
  /\ exits = << >>
  /\ localFiles = << >>
  /\ sink = << >>

(***************************************************************************)
(* Construction.                                                           *)
(***************************************************************************)
TargetNames == {"t1", "t2"}

\* an argument or an environment entry is a string; a list is a sequence of them
\* what a caller passes as target_args, target_path and target_env
CtorArgs == {None, Some(<< >>), Some(<< << "x" >> >>)}
CtorPaths == {None, Some(<< "p" >>)}
CtorEnvs == {None, Some(<< << "K" >> >>)}

\* what an image declares as Entrypoint, Cmd and Env
ImageLists == {None, Some(<< >>), Some(<< << "e" >> >>)}
ImageCmds == {None, Some(<< << "c" >> >>)}
ImageEnvs == {None, Some(<< >>), Some(<< << "V" >> >>)}

\* __init__
Constructed(ts, args, paths, envs) ==
  /\ targets = ts
  /\ ctor \in [TargetNames -> [args : args, path : paths, env : envs]]
  /\ target_args = [t \in TargetNames |-> ctor[t].args]
  /\ target_path = [t \in TargetNames |-> ctor[t].path]
  /\ target_env = [t \in TargetNames |-> ctor[t].env]
  /\ image = [t \in TargetNames |-> None]
  /\ container = [t \in TargetNames |-> None]
  /\ created = [t \in TargetNames |-> << >>]
  /\ history = [t \in TargetNames |-> [prev |-> NoCall, last |-> NoCall]]
  /\ result = [t \in TargetNames |-> None]
  /\ built = [t \in TargetNames |-> FALSE]
  /\ pc = [t \in TargetNames |-> "idle"]

\* no file operation, process or scope yet
Untouched ==
  /\ FsInit
  /\ procs = << >>
  /\ CtxInit

HostInit ==
  /\ resolved = NoPath
  /\ Untouched
  /\ docker = << >>
  /\ hostDirs = {}
  /\ hostMounts = << >>

Init ==
  /\ Constructed({"t1"}, {None, Some(<< << "x" >> >>)}, {None}, {None, Some(<< << "K" >> >>)})
  /\ ctor["t2"] = ctor["t1"]
  /\ imageAttrs \in [Entrypoint : {None, Some(<< << "e" >> >>)}, Cmd : {None},
                     Env : {None, Some(<< << "V" >> >>)}]
  /\ HostInit

Next ==
  \E t \in TargetNames :
    \/ Build(t)
    \/ Start(t)
    \/ Stop(t)
    \/ Remove(t)

Spec == Init /\ [][Next]_vars

\* a Target of every construction, an image of every configuration
InitBuild ==
  /\ Constructed({"t1"}, CtorArgs, CtorPaths \cup {Some(<< >>)}, CtorEnvs \cup {Some(<< >>)})
  /\ ctor["t2"] = ctor["t1"]
  /\ imageAttrs \in [Entrypoint : ImageLists, Cmd : ImageCmds \cup {Some(<< >>)},
                     Env : ImageEnvs]
  /\ HostInit

NextBuild == \E t \in TargetNames : Build(t)

SpecBuild == InitBuild /\ [][NextBuild]_vars

\* two Targets of one image, each after its build(), each with its own caller
InitTwo ==
  /\ targets = TargetNames
  /\ ctor = [t \in TargetNames |-> [args |-> None, path |-> None, env |-> None]]
  /\ imageAttrs = [Entrypoint |-> Some(<< << "e" >> >>), Cmd |-> None,
                   Env |-> Some(<< << "V" >> >>)]
  /\ image = [t \in TargetNames |-> Some("image")]
  /\ target_args = [t \in TargetNames |-> BuildArgs(ctor[t].args, imageAttrs)]
  /\ target_env = [t \in TargetNames |-> BuildEnv(ctor[t].env, imageAttrs)]
  /\ target_path = [t \in TargetNames |-> BuildPath(ctor[t].path, target_args[t])]
  /\ container = [t \in TargetNames |-> None]
  /\ created = [t \in TargetNames |-> << >>]
  /\ history = [t \in TargetNames |-> [prev |-> NoCall, last |-> Call("build", FALSE)]]
  /\ result = [t \in TargetNames |-> Some(t)]
  /\ built = [t \in TargetNames |-> TRUE]
  /\ pc = [t \in TargetNames |-> "idle"]
  /\ HostInit

NextTwo ==
  \E t \in TargetNames :
    \/ start_run(t)
    \/ start_makedirs(t)
    \/ start_mount(t)
    \/ stop_kill(t)
    \/ stop_umount(t)
    \/ stop_rmdir(t)

SpecTwo == InitTwo /\ [][NextTwo]_vars

\* one Target on an image with an entrypoint and an environment
InitGate ==
  /\ Constructed({"t1"}, {None}, {None}, {None})
  /\ ctor["t2"] = ctor["t1"]
  /\ imageAttrs = [Entrypoint |-> Some(<< << "e" >> >>), Cmd |-> None,
                   Env |-> Some(<< << "V" >> >>)]
  /\ HostInit

NextGate ==
  \E t \in TargetNames :
    \/ Build(t)
    \/ Start(t)
    \/ Stop(t)
    \/ Remove(t)
    \/ run_command_between(t)

SpecGate == InitGate /\ [][NextGate]_vars

\* one Target of every construction, on an image whose configuration changes,
\* on a daemon that runs the containers of others
InitFrame ==
  /\ Constructed({"t1"}, {None, Some(<< << "x" >> >>)}, CtorPaths, CtorEnvs)
  /\ ctor["t2"] = ctor["t1"]
  /\ imageAttrs \in [Entrypoint : {None, Some(<< << "e" >> >>)}, Cmd : {None},
                     Env : {None, Some(<< << "V" >> >>)}]
  /\ resolved = NoPath
  /\ Untouched
  /\ docker = [id \in { IdOf(n) : n \in 1..(MaxContainers - 1) } |-> "running"]
  /\ hostDirs = {}
  /\ hostMounts = << >>

NextFrame ==
  \/ \E t \in TargetNames :
       \/ Build(t)
       \/ Start(t)
       \/ Stop(t)
       \/ Remove(t)
       \/ run_command_between(t)
  \/ image_changes

SpecFrame == InitFrame /\ [][NextFrame]_vars

\* the state after DockerImageTarget(image, ...).build().start() returned,
\* with the bridge mounted: c are the constructor's arguments, attrs the
\* image's configuration
RunningWith(t, id, c, attrs) ==
  /\ targets = {t}
  /\ ctor = [u \in TargetNames |-> c]
  /\ imageAttrs = attrs
  /\ image = [u \in TargetNames |-> IF u = t THEN Some("image") ELSE None]
  /\ target_args = [u \in TargetNames |->
                      IF u = t THEN BuildArgs(c.args, attrs) ELSE c.args]
  /\ target_env = [u \in TargetNames |->
                     IF u = t THEN BuildEnv(c.env, attrs) ELSE c.env]
  /\ target_path = [u \in TargetNames |->
                      IF u = t THEN BuildPath(c.path, target_args[t]) ELSE c.path]
  /\ container = [u \in TargetNames |-> IF u = t THEN StartHandle(id) ELSE None]
  /\ created = [u \in TargetNames |-> IF u = t THEN << id >> ELSE << >>]
  /\ docker = (id :> "running")
  /\ hostDirs = {LocalPathOf(id)}
  /\ hostMounts = (LocalPathOf(id) :> MergedDirOf(id))
  /\ history = [u \in TargetNames |->
                  IF u = t THEN [prev |-> Call("build", FALSE),
                                 last |-> Call("start", FALSE)]
                  ELSE [prev |-> NoCall, last |-> NoCall]]
  /\ result = [u \in TargetNames |-> IF u = t THEN Some(t) ELSE None]
  /\ built = [u \in TargetNames |-> u = t]
  /\ pc = [u \in TargetNames |-> "idle"]

\* on an image with an entrypoint and an environment, nothing overridden
Running(t, id) ==
  RunningWith(t, id, [args |-> None, path |-> None, env |-> None],
              [Entrypoint |-> Some(<< << "e" >> >>), Cmd |-> None,
               Env |-> Some(<< << "V" >> >>)])

InitRunning ==
  /\ Running("t1", IdOf(1))
  /\ resolved = NoPath
  /\ Untouched

\* a running Target and a path to resolve
InitPath ==
  /\ Running("t1", IdOf(1))
  /\ resolved \in [path : PathInputs(LocalPathOf(IdOf(1)), MaxPathPieces),
                    result : {None}]
  /\ Untouched

NextPath == \E t \in TargetNames : resolve_local_path(t)

SpecPath == InitPath /\ [][NextPath]_vars

NextFs ==
  \E t \in TargetNames :
    \/ inject_paths(t)
    \/ retrieve_file_contents(t)
    \/ retrieve_path(t)

SpecFs == InitRunning /\ [][NextFs]_vars

\* running Targets of every construction and image for which build() returns
InitRun ==
  /\ \E c \in [args : CtorArgs, path : CtorPaths, env : CtorEnvs \cup {Some(<< << "K" >>, << "J" >> >>)}],
        attrs \in [Entrypoint : ImageLists, Cmd : ImageCmds, Env : ImageEnvs] :
       /\ Truthy(c.path) \/ Get(BuildArgs(c.args, attrs)) # << >>
       /\ RunningWith("t1", IdOf(1), c, attrs)
  /\ resolved = NoPath
  /\ Untouched

NextRun == \E t \in TargetNames : run_command(t)

SpecRun == InitRun /\ [][NextRun]_vars

\* a running Target whose container may hold a file at PA already, a caller
\* whose sink and whose named file may hold bytes already
InitCtx ==
  /\ Running("t1", IdOf(1))
  /\ resolved = NoPath
  /\ cfs \in {ImageFs, PutArchive(ImageFs, TarAdd(HostH, PA)).fs}
  /\ expect = [P \in TargetPaths |-> NoExpect]
  /\ fsCall = [op |-> "none"]
  /\ procs = << >>
  /\ scope = NoScope
  /\ exits = << >>
  /\ localFiles \in {<< >>, (GivenName :> << 4 >>)}
  /\ sink \in {<< >>, << 4 >>}

NextCtx ==
  \/ \E t \in TargetNames :
       \/ enter_retrieval_context(t)
       \/ enter_run_context(t)
       \/ exit_retrieval_context(t)
       \/ exit_run_context(t)
       \/ body_runs_command(t)
  \/ body_ends
  \/ process_finishes

SpecCtx == InitCtx /\ [][NextCtx]_vars

(***************************************************************************)
(* Lifecycle claims.                                                       *)
(***************************************************************************)
Returned(t, op) == history[t].last = Call(op, FALSE)
Raised(t, op) == history[t].last = Call(op, TRUE)
ReturnedBefore(t, op) == history[t].prev = Call(op, FALSE)

\* the Target is running: it holds a container and the daemon runs it
IsRunning(t) == container[t] # None /\ docker[Get(container[t])] = "running"

\* the step is a call of op on t
Calls(t, op) ==
  /\ history'[t] = [prev |-> history[t].last, last |-> history'[t].last]
  /\ history'[t].last.op = op

C2_MountRoundTrip ==
  \A t \in targets :
    /\ Returned(t, "start") =>
         /\ local_path(t) \in hostDirs
         /\ local_path(t) \in DOMAIN hostMounts
         /\ hostMounts[local_path(t)] = merged_path(t)
    /\ (ReturnedBefore(t, "start") /\ Returned(t, "stop")) =>
         local_path(t) \notin hostDirs

\* C4: remove() on a never-started Target, or after a remove() that returned,
\* does not raise and changes nothing of the Target, the daemon or the host.
C4_RemoveIdempotent ==
  [][\A t \in targets :
       ( /\ history'[t] = [prev |-> history[t].last, last |-> history'[t].last]
         /\ history'[t].last.op = "remove"
         /\ (created[t] = << >> \/ Returned(t, "remove")) )
       => /\ ~history'[t].last.raised
          /\ UNCHANGED << container, docker, hostDirs, hostMounts >>]_vars

\* C5: stop() after a stop() that returned does not raise and changes nothing
\* of the Target, the daemon or the host.
C5_StopIdempotent ==
  [][\A t \in targets :
       ( /\ history'[t] = [prev |-> history[t].last, last |-> history'[t].last]
         /\ history'[t].last.op = "stop"
         /\ Returned(t, "stop") )
       => /\ ~history'[t].last.raised
          /\ UNCHANGED << container, docker, hostDirs, hostMounts >>]_vars

\* the mount_root of container id is neither mounted nor a directory
Released(id) ==
  /\ LocalPathOf(id) \notin DOMAIN hostMounts
  /\ LocalPathOf(id) \notin hostDirs

\* C13: once a stop() of the Target has returned, or has been called after a
\* remove(), every bind-mount and mount_root that a start() of the Target
\* created, an earlier start() included, is unmounted and removed.
C13_ExactlyOnceRelease ==
  \A t \in targets :
    (Returned(t, "stop") \/ (Raised(t, "stop") /\ ReturnedBefore(t, "remove")))
      => \A i \in 1..Len(created[t]) : Released(created[t][i])

\* C14: a stop() of a running Target whose unmount fails (mount_root was
\* never mounted, or stays mounted because it is busy) does not raise, has
\* the container killed and clears the container handle.
C14_BestEffortStop ==
  [][\A t \in targets :
       ( /\ Calls(t, "stop")
         /\ IsRunning(t)
         /\ \/ local_path(t) \notin DOMAIN hostMounts
            \/ local_path(t) \in DOMAIN hostMounts' )
       => /\ ~history'[t].last.raised
          /\ docker'[Get(container[t])] = "removed"
          /\ container'[t] = None]_vars

\* C15: a start() that created the container and whose bind-mount failed
\* raises, with the container running and the container handle set to it; a
\* start() whose container creation failed raises, creates no mount_root,
\* mounts nothing and leaves the container handle as it was, unset on a
\* first start().
C15_StartFailures ==
  [][\A t \in targets :
       Calls(t, "start") =>
         IF DOMAIN docker' # DOMAIN docker
         THEN LET id == CHOOSE i \in DOMAIN docker' : i \notin DOMAIN docker
              IN LocalPathOf(id) \notin DOMAIN hostMounts'
                   => /\ history'[t].last.raised
                      /\ docker'[id] = "running"
                      /\ container'[t] = Some(id)
         ELSE /\ history'[t].last.raised
              /\ hostDirs' = hostDirs
              /\ hostMounts' = hostMounts
              /\ container'[t] = container[t]
              /\ created[t] = << >> => container'[t] = None]_vars

\* C16: once a build() has returned, no later call (build() again, also on
\* an image that has changed, start(), run_command(), stop(), remove())
\* changes args, env or primary_path.
C16_FixedAfterBuild ==
  [][\A t \in targets :
       built[t] => /\ target_args'[t] = target_args[t]
                   /\ target_env'[t] = target_env[t]
                   /\ target_path'[t] = target_path[t]]_vars

\* C19: from the first start() that returned, reading mount_root succeeds and
\* yields "/tmp/archr_mounts/" followed by the id of the container of the
\* latest start(), whatever was called since, stop() included; the bridge of
\* that container is mounted there and nowhere else, and after a stop() that
\* returned the path is gone.
C19_MountRootOfContainerId ==
  \A t \in targets :
    created[t] # << >> =>
      /\ container[t] # None
      /\ local_path(t) = MountsDir \o Last(created[t])
      /\ \A p \in DOMAIN hostMounts :
           hostMounts[p] = merged_path(t) => p = local_path(t)
      /\ Returned(t, "stop") =>
           /\ local_path(t) \notin hostDirs
           /\ local_path(t) \notin DOMAIN hostMounts

\* start() mounted the bridge, stop() returned, and mount_root still reads as
\* the path of the stopped container, which is gone
C19_Witness ==
  \E t \in targets :
    /\ ReturnedBefore(t, "start")
    /\ Returned(t, "stop")
    /\ local_path(t) = MountsDir \o << "a" >>
    /\ local_path(t) \notin hostDirs

\* the step is one of a call on t
StepOf(t) == pc'[t] # pc[t] \/ history'[t] # history[t]

\* C20: two Targets that hold containers have different mount_roots, and no
\* step of a start() or stop() of one Target mounts, unmounts, creates or
\* removes the other Target's mount_root, or kills the other's container.
C20_IndependentTargets ==
  [][\A t \in targets : \A u \in targets \ {t} :
       /\ (container'[t] # None /\ container'[u] # None)
            => LocalPathOf(Get(container'[t])) # LocalPathOf(Get(container'[u]))
       /\ (StepOf(t) /\ container[u] # None) =>
            /\ docker'[Get(container[u])] = docker[Get(container[u])]
            /\ local_path(u) \in hostDirs' <=> local_path(u) \in hostDirs
            /\ local_path(u) \in DOMAIN hostMounts' <=> local_path(u) \in DOMAIN hostMounts]_vars

\* one Target has stopped while the other runs with its bridge mounted
C20_Witness ==
  /\ Returned("t1", "stop")
  /\ container["t2"] # None
  /\ IsRunning("t2")
  /\ pc["t2"] = "idle"
  /\ local_path("t2") \in DOMAIN hostMounts
  /\ local_path("t1") \notin hostDirs

\* a list the image declares, null read as the empty list
Declared(l) == IF l = None THEN << >> ELSE Get(l)

\* C11 as stated: after a build() that returned, args, env and primary_path
\* are the constructor's values where the caller supplied them, and otherwise
\* entrypoint ++ cmd, the image's environment and args[0]; build() returned
\* the Target.
C11_BuildDefaults ==
  \A t \in targets :
    Returned(t, "build") =>
      /\ target_args[t] = IF ctor[t].args # None THEN ctor[t].args
                          ELSE Some(Declared(imageAttrs.Entrypoint)
                                      \o Declared(imageAttrs.Cmd))
      /\ target_env[t] = IF ctor[t].env # None THEN ctor[t].env ELSE imageAttrs.Env
      /\ target_path[t] = IF ctor[t].path # None THEN ctor[t].path
                          ELSE Some(Get(target_args[t])[1])
      /\ result[t] = Some(t)

\* C11 amended: the same, where a supplied empty list or empty string counts
\* as not supplied.
C11_BuildDefaultsForNonEmpty ==
  \A t \in targets :
    Returned(t, "build") =>
      /\ target_args[t] = IF ctor[t].args \notin {None, Some(<< >>)} THEN ctor[t].args
                          ELSE Some(Declared(imageAttrs.Entrypoint)
                                      \o Declared(imageAttrs.Cmd))
      /\ target_env[t] = IF ctor[t].env \notin {None, Some(<< >>)} THEN ctor[t].env
                         ELSE imageAttrs.Env
      /\ target_path[t] = IF ctor[t].path \notin {None, Some(<< >>)} THEN ctor[t].path
                          ELSE Some(Get(target_args[t])[1])
      /\ result[t] = Some(t)

\* a build() returned on a Target constructed with an empty args list and no
\* env, and took entrypoint ++ cmd and the environment from the image
C11_Witness ==
  \E t \in targets :
    /\ Returned(t, "build")
    /\ ctor[t].args = Some(<< >>)
    /\ ctor[t].env = None
    /\ target_args[t] = Some(<< << "e" >>, << "c" >> >>)
    /\ target_env[t] = Some(<< << "V" >> >>)
    /\ target_path[t] = Some(<< "e" >>)

(***************************************************************************)
(* Path Resolver claims.                                                   *)
(***************************************************************************)
\* C3: whatever path it is given, resolve_local_path returns mount_root or a
\* path below the directory mount_root, never a path beside it.
C3_Containment ==
  \A t \in targets :
    resolved.result # None =>
      UnderPrefixStrict(Get(resolved.result), local_path(t))

(***************************************************************************)
(* Injection and retrieval claims.                                         *)
(***************************************************************************)
\* C6 as stated: retrieve_file_contents(P) returns the bytes of the file F
\* last injected at P, whatever was injected at other destinations.
C6_InjectRetrieveInverse ==
  (fsCall.op = "retrieve_file_contents" /\ expect[fsCall.path].data # None)
    => fsCall.result = expect[fsCall.path].data

\* C6 amended: retrieve_file_contents(P) returns the bytes of the file F last
\* injected at P, provided no pair injected after it had an ancestor
\* directory of P as its destination.
C6_InverseUnlessShadowed ==
  ( /\ fsCall.op = "retrieve_file_contents"
    /\ expect[fsCall.path].data # None
    /\ ~expect[fsCall.path].shadowed )
    => fsCall.result = expect[fsCall.path].data

\* /a/f was injected beside other pairs and is read back
C6_Witness ==
  /\ fsCall.op = "retrieve_file_contents"
  /\ fsCall.path = PAF
  /\ ~expect[PAF].shadowed
  /\ expect[PAB].data # None
  /\ fsCall.result = Some(<< 1 >>)

\* a pair of the call names a source the host does not have
MissingSource(files) == \E i \in 1..Len(files) : files[i].src \notin DOMAIN HostFs

\* C18: an inject_paths with a missing source, whatever its position among
\* the pairs, raises and changes nothing of the container's filesystem nor of
\* the Target, the pairs before the missing one included.
C18_InjectAllOrNothing ==
  [][(fsCall'.op = "inject_paths" /\ MissingSource(fsCall'.files))
       => /\ fsCall'.raised
          /\ cfs' = cfs
          /\ UNCHANGED lifecycleVars]_vars

\* an inject_paths whose second source is missing has raised, and the file
\* of its first pair is not in the container
C18_Witness ==
  /\ fsCall.op = "inject_paths"
  /\ fsCall.files = << [src |-> HostH, dst |-> PA], [src |-> HostN, dst |-> PAB] >>
  /\ fsCall.raised
  /\ LStripSlash(PA) \notin DOMAIN cfs

\* C7: retrieve_path(target_path, local_dir) extracts exactly the members of
\* the stream that are target_path's entry or lie below it, with the entry
\* for target_path placed at local_dir joined with target_path.
C7_RetrievalScoping ==
  (fsCall.op = "retrieve_path" /\ ~fsCall.raised)
    => fsCall.extracted =
         { [m EXCEPT !.name = PathJoin(LocalDir, LStripSlash(fsCall.path))
                                \o SubSeq(m.name, Len(Basename(fsCall.path)) + 1,
                                          Len(m.name))] :
             m \in { x \in fsCall.stream : Under(x.name, Basename(fsCall.path)) } }

(***************************************************************************)
(* Execution Gateway claims.                                               *)
(***************************************************************************)
\* the list a caller gave, or the empty list
ListOr(o, default) == IF o # None /\ Get(o) # << >> THEN Get(o) ELSE default

\* one "-e", entry pair per entry of env, in order
RECURSIVE Flatten(_)
Flatten(ss) == IF ss = << >> THEN << >> ELSE Head(ss) \o Flatten(Tail(ss))
EnvAssignments(env) == Flatten([ i \in 1..Len(env) |-> << WDashE, env[i] >> ])

\* C10: the command a launched process executes is args_prefix ++ (args or
\* the default args) ++ args_suffix, wrapped as a whole with setarch x86_64 -R
\* exactly when aslr is false, after docker exec -i, one -e assignment per
\* entry of env in order, and the container id.
C10_EffectiveCommand ==
  \A t \in targets : \A i \in 1..Len(procs) :
    LET p == procs[i]
        cmd == ListOr(p.prefix, << >>) \o ListOr(p.args, Get(target_args[t]))
                 \o ListOr(p.suffix, << >>)
        wrapped == IF p.aslr THEN cmd ELSE << WSetarch, WX8664, WDashR >> \o cmd
    IN p.argv = << WDocker, WExec, WDashI >> \o EnvAssignments(Get(target_env[t]))
                  \o << Get(container[t]) >> \o wrapped

\* a process launched with a prefix, a suffix, the default args, two
\* environment entries and aslr off
C10_Witness ==
  \E i \in 1..Len(procs) :
    /\ ~procs[i].aslr
    /\ procs[i].prefix = Some(<< WPre >>)
    /\ procs[i].suffix = Some(<< WSuf >>)
    /\ procs[i].args = None
    /\ Len(Get(target_env["t1"])) = 2

\* C12: a run_command called while the Target is not running (never started,
\* or stopped, or removed) raises and launches no process.
C12_RunCommandNeedsRunning ==
  [][\A t \in targets :
       (Calls(t, "run_command") /\ ~IsRunning(t))
         => (history'[t].last.raised /\ procs' = procs)]_vars

(***************************************************************************)
(* Context manager claims.                                                 *)
(***************************************************************************)
\* the bytes a destination holds
Contents(dest) ==
  IF dest = "sink" THEN sink
  ELSE IF dest = "path" THEN localFiles[GivenName] ELSE localFiles[TempName]

C17_CleanupOrder ==
  \A i \in 1..Len(exits) :
    exits[i].kind = "retrieval" =>
      /\ exits[i].inner = 0
      /\ \A j \in 1..Len(exits) :
           (exits[j].kind = "run" /\ exits[j].seq > exits[i].seq) =>
             /\ j < i
             /\ exits[j].waitedFirst =>
                  /\ exits[i].fileAtExit = Some(CommandOutput.data)
                  /\ Contents(exits[i].dest) =
                       (IF exits[i].dest = "sink" THEN exits[i].sinkBefore ELSE << >>)
                         \o CommandOutput.data

\* a retrieval_context into a sink and a run_context inside it were left by a
\* body that completed, and the sink holds the output of the process
C17_Witness ==
  /\ Len(exits) = 2
  /\ exits[1].kind = "run" /\ exits[1].seq = 2 /\ exits[1].waitedFirst
  /\ exits[2].kind = "retrieval" /\ exits[2].seq = 1 /\ exits[2].dest = "sink"
  /\ ~exits[2].excBefore
  /\ sink = CommandOutput.data

\* C9: a left run_context launched one process and yielded it, has waited for
\* it before terminating it when the body completed and the wait returned,
\* and has made its one terminate attempt on every exit path.
C9_ScopedExecution ==
  \A i \in 1..Len(exits) :
    exits[i].kind = "run" =>
      /\ exits[i].pid \in 1..Len(procs)
      /\ exits[i].yielded = exits[i].pid
      /\ procs[exits[i].pid].terminates = 1
      /\ (~exits[i].excBefore /\ ~exits[i].interrupted) => exits[i].waitedFirst

\* a run_context left by an exception of the body, its process terminated
\* without a wait
C9_Witness ==
  \E i \in 1..Len(exits) :
    /\ exits[i].kind = "run"
    /\ exits[i].excBefore
    /\ ~procs[exits[i].pid].waited
    /\ procs[exits[i].pid].state = "killed"

====
